---- MODULE Spec2Model ----
(***************************************************************************)
(* A model of the ontology validator (src/src/ontology_engine/validator.py) *)
(* validate_ontology is a pure function of the document on disk and of the  *)
(* three minimum thresholds.  The document and the order in which Python    *)
(* iterates its sets are drawn in Init; one action per return path of       *)
(* validate_ontology applies the function to thresholds drawn by the call.  *)
(* ClassifySpec models the classification of the parsed triples alone, and  *)
(* AgentSpec the run of generate_ontology (agent.py) up to its calls of     *)
(* validate_ontology.                                                       *)
(*                                                                         *)
(* Representation                                                          *)
(*   URIRef        <<namespace, name>>, two naturals; the name stands for   *)
(*                 the text after the last '#' or '/', ordered as Python    *)
(*                 orders the strings                                       *)
(*   rdflib Graph  a record of triple sets: types (rdf:type), dom           *)
(*                 (rdfs:domain), rng (rdfs:range), sub (rdfs:subClassOf),  *)
(*                 label and comment (subjects carrying the triple)         *)
(*   dict          a function; the empty dict is the empty function         *)
(*   float ratio   kept exact as numerator and denominator; round() and     *)
(*                 the % and .2f formats become integers scaled by 1000 or  *)
(*                 by 100                                                   *)
(*   str           a record (or sequence of records) of the values the      *)
(*                 f-string interpolates, tagged by the message             *)
(***************************************************************************)
EXTENDS Integers, Sequences, FiniteSets, TLC

VARIABLES doc, hashSeed, pc, args, result, caller, run

vars == <<doc, hashSeed, pc, args, result, caller, run>>

(***************************************************************************)
(* Bounds of the model.                                                    *)
(***************************************************************************)
MaxMin == 2
MaxSeed == 1
MaxClasses == 20
MaxBulk == 11
MaxTriples == 3
MaxDense == 10
MaxAttempts == 2

(***************************************************************************)
(* Program constants (validator.py).  The connectivity thresholds are the   *)
(* decimal literals 0.40, 0.40 and 0.65, kept as hundredths.                *)
(***************************************************************************)
_MIN_PROPERTY_COVERAGE == 40
_MIN_PROP_CLASS_RATIO == 40
_MAX_TAXONOMY_ONLY_RATIO == 65
ListingCap == 10
ComponentPreviewCap == 5

_OWL_CLASS == "Class"
_OWL_OBJECT_PROPERTY == "ObjectProperty"
_OWL_DATATYPE_PROPERTY == "DatatypeProperty"
_OWL_NAMED_INDIVIDUAL == "NamedIndividual"

Kinds == {_OWL_CLASS, _OWL_OBJECT_PROPERTY, _OWL_DATATYPE_PROPERTY, _OWL_NAMED_INDIVIDUAL}

EmptyDict == [k \in {} |-> 0]

NoResult == <<>>

(***************************************************************************)
(* _local_name: the part of the URI after '#' (or after the last '/').      *)
(***************************************************************************)
_local_name(uri) == uri[2]

(***************************************************************************)
(* Iteration order of a Python set.  The order is fixed by the hashes of    *)
(* the members, which change with the interpreter's hash seed: the slot of  *)
(* a member is its hash modulo the table size, members in the same slot     *)
(* follow in probe order.                                                   *)
(***************************************************************************)
Hash(uri, seed) == ((uri[1] * 5 + uri[2]) * (2 * seed + 1)) % 8

Slot(uri, seed) == Hash(uri, seed) * 10000 + uri[1] * 100 + uri[2]

RECURSIVE InsertBySlot(_, _, _)
InsertBySlot(x, s, seed) ==
    IF s = <<>> THEN <<x>>
    ELSE IF Slot(x, seed) < Slot(Head(s), seed) THEN <<x>> \o s
    ELSE <<Head(s)>> \o InsertBySlot(x, Tail(s), seed)

RECURSIVE IterateInto(_, _, _)
IterateInto(S, s, seed) ==
    IF S = {} THEN s
    ELSE LET x == CHOOSE y \in S : TRUE
         IN  IterateInto(S \ {x}, InsertBySlot(x, s, seed), seed)

Iterate(S, seed) == IterateInto(S, <<>>, seed)

(***************************************************************************)
(* sorted(names): ascending, duplicates kept.                               *)
(***************************************************************************)
RECURSIVE Insert(_, _)
Insert(n, s) ==
    IF s = <<>> THEN <<n>>
    ELSE IF n <= Head(s) THEN <<n>> \o s
    ELSE <<Head(s)>> \o Insert(n, Tail(s))

RECURSIVE Sorted(_)
Sorted(s) == IF s = <<>> THEN <<>> ELSE Insert(Head(s), Sorted(Tail(s)))

Take(s, n) == SubSeq(s, 1, IF Len(s) < n THEN Len(s) ELSE n)

LocalNames(s) == [i \in 1..Len(s) |-> _local_name(s[i])]

(***************************************************************************)
(* round(num/den * scale) to the nearest integer, ties to the even one: the *)
(* value of round(x, 3) in thousandths (scale 1000), of f"{x:.2f}" in       *)
(* hundredths and of f"{x:.0%}" in percent (scale 100).  den > 0.           *)
(***************************************************************************)
RoundScaled(num, den, scale) ==
    LET q == (num * scale) \div den
        r == (num * scale) % den
    IN  IF 2 * r > den THEN q + 1
        ELSE IF 2 * r < den THEN q
        ELSE IF q % 2 = 0 THEN q ELSE q + 1

(***************************************************************************)
(* graph.triples((s, p, None)): the objects of one subject in a relation.   *)
(***************************************************************************)
Objects(rel, s) == {t[2] : t \in {x \in rel : x[1] = s}}

Subjects(graph, kind) == {t[1] : t \in {x \in graph.types : x[2] = kind}}

(***************************************************************************)
(* A float ratio as <<numerator, denominator>>; the comparisons with the    *)
(* thresholds (hundredths) are those of the exact values.                   *)
(***************************************************************************)
Ratio(num, den) == IF den # 0 THEN <<num, den>> ELSE <<0, 1>>

(* Variant: the threshold itself counts as below it.                        *)
Below_OrEqual(r, hundredths) == r[1] * 100 <= hundredths * r[2]

Below(r, hundredths) == r[1] * 100 < hundredths * r[2]

Above(r, hundredths) == r[1] * 100 > hundredths * r[2]

(***************************************************************************)
(* _connectivity_metrics, in the order of the code.                        *)
(***************************************************************************)
(* Variant: a domain is counted whether or not it is a class.               *)
ClassesInDomain_Unfiltered(graph, classes, obj_props) ==
    UNION {Objects(graph.dom, prop) : prop \in obj_props}

ClassesInDomain(graph, classes, obj_props) ==
    {dom \in classes : \E prop \in obj_props : <<prop, dom>> \in graph.dom}

ClassesInRange(graph, classes, obj_props) ==
    {r \in classes : \E prop \in obj_props : <<prop, r>> \in graph.rng}

ClassesInProperties(graph, classes, obj_props) ==
    ClassesInDomain(graph, classes, obj_props) \cup ClassesInRange(graph, classes, obj_props)

PropClassRatio(classes, obj_props) == Ratio(Cardinality(obj_props), Cardinality(classes))

SubClassEdges(graph, classes) ==
    {e \in graph.sub : e[1] \in classes /\ e[2] \in classes}

(* Variant: the classes of a domain are linked to each other, not to the    *)
(* classes of the range.                                                    *)
PropertyEdges_WithinDomain(graph, classes, obj_props) ==
    UNION {(Objects(graph.dom, prop) \cap classes) \X (Objects(graph.dom, prop) \cap classes)
           : prop \in obj_props}

PropertyEdges(graph, classes, obj_props) ==
    UNION {(Objects(graph.dom, prop) \cap classes) \X (Objects(graph.rng, prop) \cap classes)
           : prop \in obj_props}

(* Variant: an edge is entered at its first end only.                       *)
Adjacency_OneWay(graph, classes, obj_props) ==
    LET edges == SubClassEdges(graph, classes) \cup PropertyEdges(graph, classes, obj_props)
    IN  [cls \in classes |-> {n \in classes : <<cls, n>> \in edges}]

Adjacency(graph, classes, obj_props) ==
    LET edges == SubClassEdges(graph, classes) \cup PropertyEdges(graph, classes, obj_props)
    IN  [cls \in classes |-> {n \in classes : <<cls, n>> \in edges \/ <<n, cls>> \in edges}]

(***************************************************************************)
(* The inner while loop of the breadth-first search: one component.         *)
(***************************************************************************)
RECURSIVE Traverse(_, _, _, _, _)
Traverse(adjacency, queue, visited, component, seed) ==
    IF queue = <<>> THEN [visited |-> visited, component |-> component]
    ELSE LET current == Head(queue)
         IN  IF current \in visited
             THEN Traverse(adjacency, Tail(queue), visited, component, seed)
             ELSE Traverse(adjacency,
                           Tail(queue) \o Iterate(adjacency[current] \ (visited \cup {current}), seed),
                           visited \cup {current},
                           component \cup {current},
                           seed)

RECURSIVE ComponentsFrom(_, _, _, _, _)
ComponentsFrom(adjacency, nodes, visited, components, seed) ==
    IF nodes = <<>> THEN components
    ELSE IF Head(nodes) \in visited
         THEN ComponentsFrom(adjacency, Tail(nodes), visited, components, seed)
         ELSE LET t == Traverse(adjacency, <<Head(nodes)>>, visited, {}, seed)
              IN  ComponentsFrom(adjacency, Tail(nodes), t.visited,
                                 Append(components, t.component), seed)

(* Variant: the search starts only from classes that have a neighbour.      *)
Components_FromLinkedOnly(adjacency, nodes, seed) ==
    LET HasEdge(cls) == adjacency[cls] # {}
    IN  ComponentsFrom(adjacency, SelectSeq(nodes, HasEdge), {}, <<>>, seed)

(* Variant: every class starts a search of its own with nothing visited.    *)
Components_PerClass(adjacency, nodes, seed) ==
    [i \in 1..Len(nodes) |-> Traverse(adjacency, <<nodes[i]>>, {}, {}, seed).component]

Components(adjacency, nodes, seed) ==
    ComponentsFrom(adjacency, nodes, {}, <<>>, seed)

OrphanClasses(adjacency, nodes) ==
    LET NoEdge(cls) == adjacency[cls] = {}
    IN  SelectSeq(nodes, NoEdge)

InList(x, list) == \E i \in 1..Len(list) : list[i] = x

(* Variant: the orphans are not taken out.                                  *)
TaxonomyOnly_WithOrphans(nodes, classes_in_properties, orphan_classes) ==
    LET Test(cls) == cls \notin classes_in_properties
    IN  SelectSeq(nodes, Test)

TaxonomyOnly(nodes, classes_in_properties, orphan_classes) ==
    LET Test(cls) == cls \notin classes_in_properties /\ ~InList(cls, orphan_classes)
    IN  SelectSeq(nodes, Test)

RECURSIVE SumDegrees(_, _)
SumDegrees(adjacency, S) ==
    IF S = {} THEN 0
    ELSE LET cls == CHOOSE c \in S : TRUE
         IN  Cardinality(adjacency[cls]) + SumDegrees(adjacency, S \ {cls})

AvgDegree(adjacency, classes) == Ratio(SumDegrees(adjacency, classes), Cardinality(classes))

(* Variant: the flag is computed without the test for an empty class set,   *)
(* on the ratios that are then 0.0.                                         *)
IsSparse_Unguarded(property_coverage, prop_class_ratio, n_taxonomy_only, n_classes) ==
    \/ Below(property_coverage, _MIN_PROPERTY_COVERAGE)
    \/ Below(prop_class_ratio, _MIN_PROP_CLASS_RATIO)
    \/ Above(Ratio(n_taxonomy_only, n_classes), _MAX_TAXONOMY_ONLY_RATIO)

(* Variant: a property-to-class ratio at the threshold is flagged.          *)
IsSparse_RatioAtThreshold(property_coverage, prop_class_ratio, n_taxonomy_only, n_classes) ==
    IF n_classes # 0
    THEN \/ Below(property_coverage, _MIN_PROPERTY_COVERAGE)
         \/ ~Above(prop_class_ratio, _MIN_PROP_CLASS_RATIO)
         \/ Above(Ratio(n_taxonomy_only, n_classes), _MAX_TAXONOMY_ONLY_RATIO)
    ELSE FALSE

(* Variant: coverage at the threshold is flagged.                           *)
IsSparse_AtThreshold(property_coverage, prop_class_ratio, n_taxonomy_only, n_classes) ==
    IF n_classes # 0
    THEN \/ ~Above(property_coverage, _MIN_PROPERTY_COVERAGE)
         \/ Below(prop_class_ratio, _MIN_PROP_CLASS_RATIO)
         \/ Above(Ratio(n_taxonomy_only, n_classes), _MAX_TAXONOMY_ONLY_RATIO)
    ELSE FALSE

IsSparse(property_coverage, prop_class_ratio, n_taxonomy_only, n_classes) ==
    IF n_classes # 0
    THEN \/ Below(property_coverage, _MIN_PROPERTY_COVERAGE)
         \/ Below(prop_class_ratio, _MIN_PROP_CLASS_RATIO)
         \/ Above(Ratio(n_taxonomy_only, n_classes), _MAX_TAXONOMY_ONLY_RATIO)
    ELSE FALSE

Metrics(classes, adjacency, coverage, ratio, components, orphan_classes, taxonomy_only) ==
    LET avg == AvgDegree(adjacency, classes)
    IN  [orphan_classes |-> Len(orphan_classes),
         property_coverage |-> RoundScaled(coverage[1], coverage[2], 1000),
         property_to_class_ratio |-> RoundScaled(ratio[1], ratio[2], 1000),
         connected_components |-> Len(components),
         avg_class_degree |-> RoundScaled(avg[1], avg[2], 100),
         taxonomy_only_classes |-> Len(taxonomy_only),
         is_sparse |-> IsSparse(coverage, ratio, Len(taxonomy_only), Cardinality(classes))]

(***************************************************************************)
(* The report.  A truncated listing is the first `cap` names and, when more *)
(* names exist, the count that the text prints after them.                  *)
(***************************************************************************)
(* Variant: the count printed after the names is that of all names.         *)
Listing_CountsAll(names, cap) ==
    [names |-> Take(names, cap),
     more |-> IF Len(names) > cap THEN <<Len(names)>> ELSE <<>>]

Listing(names, cap) ==
    [names |-> Take(names, cap),
     more |-> IF Len(names) > cap THEN <<Len(names) - cap>> ELSE <<>>]

(***************************************************************************)
(* sorted(components, key=len, reverse=True): a stable sort, components of  *)
(* equal size keep the order in which the search found them.                *)
(***************************************************************************)
RECURSIVE InsertBySize(_, _)
InsertBySize(comp, s) ==
    IF s = <<>> THEN <<comp>>
    ELSE IF Cardinality(comp) > Cardinality(Head(s)) THEN <<comp>> \o s
    ELSE <<Head(s)>> \o InsertBySize(comp, Tail(s))

RECURSIVE SortedBySize(_)
SortedBySize(components) ==
    IF components = <<>> THEN <<>>
    ELSE InsertBySize(components[Len(components)],
                      SortedBySize(SubSeq(components, 1, Len(components) - 1)))

ComponentSummary(i, comp, seed) ==
    LET names == Sorted(LocalNames(Iterate(comp, seed)))
    IN  [index |-> i,
         names |-> Take(names, ComponentPreviewCap),
         total |-> IF Len(names) > ComponentPreviewCap THEN <<Len(names)>> ELSE <<>>]

RECURSIVE SummariesFrom(_, _, _)
SummariesFrom(ordered, i, seed) ==
    IF i > Len(ordered) THEN <<>>
    ELSE <<ComponentSummary(i, ordered[i], seed)>> \o SummariesFrom(ordered, i + 1, seed)

ComponentSummaries(components, seed) == SummariesFrom(SortedBySize(components), 1, seed)

Warnings(n_classes, n_obj_props, covered, coverage, ratio, components, orphan_classes, taxonomy_only, seed) ==
    (IF Below(coverage, _MIN_PROPERTY_COVERAGE)
     THEN <<[warning |-> "Property coverage is LOW",
             covered |-> covered,
             classes |-> n_classes,
             pct |-> RoundScaled(coverage[1], coverage[2], 100),
             uncovered |-> n_classes - covered]>>
     ELSE <<>>)
    \o
    (IF Below(ratio, _MIN_PROP_CLASS_RATIO)
     THEN <<[warning |-> "Property-to-class ratio",
             ratio |-> RoundScaled(ratio[1], ratio[2], 100),
             properties |-> n_obj_props,
             classes |-> n_classes]>>
     ELSE <<>>)
    \o
    (IF Len(components) > 1
     THEN <<[warning |-> "disconnected components",
             components |-> Len(components),
             summaries |-> ComponentSummaries(components, seed)]>>
     ELSE <<>>)
    \o
    (IF orphan_classes # <<>>
     THEN <<[warning |-> "orphan class(es)",
             orphans |-> Len(orphan_classes),
             preview |-> Listing(Sorted(LocalNames(orphan_classes)), ListingCap)]>>
     ELSE <<>>)
    \o
    (IF n_classes # 0 /\ Above(Ratio(Len(taxonomy_only), n_classes), _MAX_TAXONOMY_ONLY_RATIO)
     THEN <<[warning |-> "taxonomy-only",
             count |-> Len(taxonomy_only),
             pct |-> RoundScaled(Len(taxonomy_only), n_classes, 100),
             preview |-> Listing(Sorted(LocalNames(taxonomy_only)), ListingCap)]>>
     ELSE <<>>)

PassedLines(n_classes, n_obj_props, covered, coverage, ratio, components, orphan_classes, taxonomy_only) ==
    <<[line |-> "All connectivity checks passed:"],
      [line |-> "- Property coverage",
       covered |-> covered,
       classes |-> n_classes,
       pct |-> RoundScaled(coverage[1], coverage[2], 100)],
      [line |-> "- Property-to-class ratio",
       ratio |-> RoundScaled(ratio[1], ratio[2], 100),
       properties |-> n_obj_props,
       classes |-> n_classes],
      [line |-> "- The graph is fully connected", components |-> Len(components)],
      IF orphan_classes # <<>>
      THEN [line |-> "- orphan class(es) detected", orphans |-> Len(orphan_classes)]
      ELSE [line |-> "- No orphan classes detected."],
      [line |-> "- taxonomy-only classes",
       count |-> Len(taxonomy_only),
       pct |-> IF n_classes # 0 THEN RoundScaled(Len(taxonomy_only), n_classes, 100) ELSE 0]>>

Report(n_classes, n_obj_props, n_data_props, covered, coverage, ratio, components, orphan_classes, taxonomy_only, seed) ==
    LET warnings == Warnings(n_classes, n_obj_props, covered, coverage, ratio, components,
                             orphan_classes, taxonomy_only, seed)
    IN  <<[line |-> "Graph Connectivity Analysis"],
          [line |-> "============================"],
          [line |-> "The ontology has",
           classes |-> n_classes,
           object_properties |-> n_obj_props,
           datatype_properties |-> n_data_props],
          [line |-> ""]>>
        \o
        (IF warnings # <<>>
         THEN <<[line |-> "Sparsity warnings:"]>>
              \o [i \in 1..Len(warnings) |-> [line |-> "- ", text |-> warnings[i]]]
         ELSE PassedLines(n_classes, n_obj_props, covered, coverage, ratio, components,
                          orphan_classes, taxonomy_only))

(***************************************************************************)
(* nodes is the order in which the loops `for ... in classes` visit the     *)
(* classes.                                                                 *)
(***************************************************************************)
_connectivity_metrics(graph, classes, obj_props, data_props, individuals, seed) ==
    LET nodes == Iterate(classes, seed)
        classes_in_properties == ClassesInProperties(graph, classes, obj_props)
        property_coverage == Ratio(Cardinality(classes_in_properties), Cardinality(classes))
        prop_class_ratio == PropClassRatio(classes, obj_props)
        adjacency == Adjacency(graph, classes, obj_props)
        components == Components(adjacency, nodes, seed)
        orphan_classes == OrphanClasses(adjacency, nodes)
        taxonomy_only == TaxonomyOnly(nodes, classes_in_properties, orphan_classes)
    IN  [metrics |-> Metrics(classes, adjacency, property_coverage, prop_class_ratio,
                             components, orphan_classes, taxonomy_only),
         report |-> Report(Cardinality(classes), Cardinality(obj_props),
                           Cardinality(data_props), Cardinality(classes_in_properties),
                           property_coverage, prop_class_ratio, components,
                           orphan_classes, taxonomy_only, seed)]

(***************************************************************************)
(* validate_ontology.                                                      *)
(*                                                                         *)
(* The document on disk: file is "absent", "not json" (json.load raises     *)
(* JSONDecodeError) or "json"; top is the type of the top-level JSON value; *)
(* members are the operands for which `in data` is true (keys of an object, *)
(* elements of an array, substrings of a string); graph_is_list says        *)
(* whether the value under "@graph" is a JSON array; parses says whether    *)
(* rdflib accepts the document, and graph is the triples it then holds.     *)
(***************************************************************************)
Supports_in(d) == d.top \in {"object", "array", "string"}

Supports_get(d) == d.top = "object"

StructureErrors(d) ==
    (IF "@context" \notin d.members
     THEN <<[rule |-> "Missing @context in JSON-LD root"]>> ELSE <<>>)
    \o
    (IF "@graph" \notin d.members
     THEN <<[rule |-> "Missing @graph in JSON-LD root"]>> ELSE <<>>)
    \o
    (IF ~("@graph" \in d.members /\ d.graph_is_list)
     THEN <<[rule |-> "@graph must be a JSON array"]>> ELSE <<>>)

(* Variant: an entity that is also an individual is not taken as a class.   *)
Classes_NotIndividuals(graph) ==
    Subjects(graph, _OWL_CLASS) \ Subjects(graph, _OWL_NAMED_INDIVIDUAL)

Classes(graph) == Subjects(graph, _OWL_CLASS)

(* Variant: an entity that is also a datatype property is not taken as an   *)
(* object property.                                                         *)
ObjProps_NotDatatype(graph) ==
    Subjects(graph, _OWL_OBJECT_PROPERTY) \ Subjects(graph, _OWL_DATATYPE_PROPERTY)

ObjProps(graph) == Subjects(graph, _OWL_OBJECT_PROPERTY)

DataProps(graph) == Subjects(graph, _OWL_DATATYPE_PROPERTY)

Individuals(graph) == Subjects(graph, _OWL_NAMED_INDIVIDUAL)

Stats(classes, obj_props, data_props, individuals) ==
    [classes |-> Cardinality(classes),
     object_properties |-> Cardinality(obj_props),
     data_properties |-> Cardinality(data_props),
     individuals |-> Cardinality(individuals)]

(* Variant: a class count equal to its threshold is reported, and the       *)
(* properties are counted as object plus datatype properties.               *)
CountErrors_OffByOne(classes, obj_props, data_props, individuals, min_classes, min_properties, min_individuals) ==
    (IF Cardinality(classes) <= min_classes
     THEN <<[rule |-> "FR-001: Too few classes",
             found |-> Cardinality(classes),
             minimum |-> min_classes]>>
     ELSE <<>>)
    \o
    (IF Cardinality(obj_props) + Cardinality(data_props) < min_properties
     THEN <<[rule |-> "FR-002: Too few properties",
             found |-> Cardinality(obj_props) + Cardinality(data_props),
             object |-> Cardinality(obj_props),
             data |-> Cardinality(data_props),
             minimum |-> min_properties]>>
     ELSE <<>>)
    \o
    (IF Cardinality(individuals) < min_individuals
     THEN <<[rule |-> "FR-003: Too few individuals",
             found |-> Cardinality(individuals),
             minimum |-> min_individuals]>>
     ELSE <<>>)

CountErrors(classes, obj_props, data_props, individuals, min_classes, min_properties, min_individuals) ==
    LET all_properties == obj_props \cup data_props
    IN  (IF Cardinality(classes) < min_classes
         THEN <<[rule |-> "FR-001: Too few classes",
                 found |-> Cardinality(classes),
                 minimum |-> min_classes]>>
         ELSE <<>>)
        \o
        (IF Cardinality(all_properties) < min_properties
         THEN <<[rule |-> "FR-002: Too few properties",
                 found |-> Cardinality(all_properties),
                 object |-> Cardinality(obj_props),
                 data |-> Cardinality(data_props),
                 minimum |-> min_properties]>>
         ELSE <<>>)
        \o
        (IF Cardinality(individuals) < min_individuals
         THEN <<[rule |-> "FR-003: Too few individuals",
                 found |-> Cardinality(individuals),
                 minimum |-> min_individuals]>>
         ELSE <<>>)

(* Variant: the domain list is filled by the range test.                    *)
PropsMissingDomain_ByRange(graph, props) ==
    LET NoRange(prop) == Objects(graph.rng, prop) = {}
    IN  LocalNames(SelectSeq(props, NoRange))

(***************************************************************************)
(* The lists the two for loops build: local names, in iteration order, of   *)
(* the subjects that have no triple in the relation.                        *)
(***************************************************************************)
PropsMissingDomain(graph, props) ==
    LET NoDomain(prop) == Objects(graph.dom, prop) = {}
    IN  LocalNames(SelectSeq(props, NoDomain))

PropsMissingRange(graph, props) ==
    LET NoRange(prop) == Objects(graph.rng, prop) = {}
    IN  LocalNames(SelectSeq(props, NoRange))

MissingLabel(graph, entities) ==
    LET NoLabel(entity) == entity \notin graph.label
    IN  LocalNames(SelectSeq(entities, NoLabel))

MissingComment(graph, entities) ==
    LET NoComment(entity) == entity \notin graph.comment
    IN  LocalNames(SelectSeq(entities, NoComment))

ListingError(rule, names) ==
    IF names # <<>> THEN <<[rule |-> rule, listing |-> Listing(names, ListingCap)]>> ELSE <<>>

DomainRangeErrors(graph, all_properties, seed) ==
    LET props == Iterate(all_properties, seed)
    IN  ListingError("FR-004: Properties missing rdfs:domain", PropsMissingDomain(graph, props))
        \o ListingError("FR-004: Properties missing rdfs:range", PropsMissingRange(graph, props))

LabelCommentErrors(graph, all_entities, seed) ==
    LET entities == Iterate(all_entities, seed)
    IN  ListingError("FR-005: Entities missing rdfs:label", MissingLabel(graph, entities))
        \o ListingError("FR-005: Entities missing rdfs:comment", MissingComment(graph, entities))

(***************************************************************************)
(* ValidationResult (models.py); stats, connectivity and the report default *)
(* to the empty dict and the empty string.                                  *)
(***************************************************************************)
ValidationResult(success, raw_output, error_count, stats, connectivity, connectivity_report) ==
    [success |-> success,
     raw_output |-> raw_output,
     error_count |-> error_count,
     stats |-> stats,
     connectivity |-> connectivity,
     connectivity_report |-> connectivity_report]

LoadFailure(text, errors, error_count) ==
    ValidationResult(FALSE, [text |-> text, errors |-> errors], error_count,
                     EmptyDict, EmptyDict, <<>>)

(***************************************************************************)
(* What validate_ontology computes from the parsed graph before it looks at *)
(* the thresholds or after it: the four sets, the stats, the errors of      *)
(* checks 7 and 8 and the connectivity analysis.                            *)
(***************************************************************************)
Analysis(graph, seed) ==
    LET classes == Classes(graph)
        obj_props == ObjProps(graph)
        data_props == DataProps(graph)
        individuals == Individuals(graph)
        all_properties == obj_props \cup data_props
        all_entities == classes \cup all_properties \cup individuals
        conn == _connectivity_metrics(graph, classes, obj_props, data_props, individuals, seed)
    IN  [classes |-> classes,
         obj_props |-> obj_props,
         data_props |-> data_props,
         individuals |-> individuals,
         stats |-> Stats(classes, obj_props, data_props, individuals),
         listing_errors |-> DomainRangeErrors(graph, all_properties, seed)
                            \o LabelCommentErrors(graph, all_entities, seed),
         conn_metrics |-> conn.metrics,
         conn_report |-> conn.report]

(* Variant: the listing rules are skipped once a count rule has failed.     *)
Errors_StopAfterCounts(a, min_classes, min_properties, min_individuals) ==
    LET counts == CountErrors(a.classes, a.obj_props, a.data_props, a.individuals,
                              min_classes, min_properties, min_individuals)
    IN  IF counts # <<>> THEN counts ELSE a.listing_errors

Errors(a, min_classes, min_properties, min_individuals) ==
    CountErrors(a.classes, a.obj_props, a.data_props, a.individuals,
                min_classes, min_properties, min_individuals)
    \o a.listing_errors

(* Variant: a failed validation returns without the connectivity analysis.  *)
Failed_WithoutAnalysis(a, errors) ==
    ValidationResult(FALSE,
                     [text |-> "Validation failed with", count |-> Len(errors),
                      stats |-> a.stats, errors |-> errors],
                     Len(errors), a.stats, EmptyDict, <<>>)

Failed(a, errors) ==
    ValidationResult(FALSE,
                     [text |-> "Validation failed with", count |-> Len(errors),
                      stats |-> a.stats, errors |-> errors],
                     Len(errors), a.stats, a.conn_metrics, a.conn_report)

Passed(a) ==
    ValidationResult(TRUE,
                     [text |-> "Validation passed.", stats |-> a.stats, errors |-> <<>>],
                     0, a.stats, a.conn_metrics, a.conn_report)

(***************************************************************************)
(* The documents of the model.                                             *)
(***************************************************************************)
Graph(types, dom, rng, sub, label, comment) ==
    [types |-> types, dom |-> dom, rng |-> rng, sub |-> sub,
     label |-> label, comment |-> comment]

Typed(S, kind) == {<<e, kind>> : e \in S}

(* A URI that no type triple declares (a datatype, an external term).      *)
External == <<1, 9>>

(* One or two entities with every mix of type assertions and of domain,    *)
(* range, label and comment triples; the second entity shares the local     *)
(* name of the first in another namespace.                                  *)
TypeSets ==
    {{}, {_OWL_CLASS}, {_OWL_OBJECT_PROPERTY}, {_OWL_DATATYPE_PROPERTY},
     {_OWL_NAMED_INDIVIDUAL}, {_OWL_OBJECT_PROPERTY, _OWL_DATATYPE_PROPERTY},
     {_OWL_CLASS, _OWL_NAMED_INDIVIDUAL}, {"Ontology"}}

EntityGraph(e, kinds, dom, rng, label, comment) ==
    Graph({<<e, k>> : k \in kinds},
          IF dom THEN {<<e, External>>} ELSE {},
          IF rng THEN {<<e, External>>} ELSE {},
          {},
          IF label THEN {e} ELSE {},
          IF comment THEN {e} ELSE {})

Merge(g, h) ==
    Graph(g.types \cup h.types, g.dom \cup h.dom, g.rng \cup h.rng, g.sub \cup h.sub,
          g.label \cup h.label, g.comment \cup h.comment)

EmptyGraph == Graph({}, {}, {}, {}, {}, {})

FirstEntityGraphs ==
    {EntityGraph(<<1, 1>>, kinds, d, r, l, c) :
        kinds \in TypeSets, d \in BOOLEAN, r \in BOOLEAN, l \in BOOLEAN, c \in BOOLEAN}

SecondEntityGraphs ==
    {EmptyGraph,
     EntityGraph(<<2, 1>>, {_OWL_CLASS}, FALSE, FALSE, TRUE, TRUE),
     EntityGraph(<<2, 1>>, {_OWL_OBJECT_PROPERTY}, FALSE, FALSE, FALSE, FALSE),
     EntityGraph(<<2, 1>>, {_OWL_NAMED_INDIVIDUAL}, FALSE, FALSE, FALSE, TRUE)}

RuleGraphs == {Merge(g, h) : g \in FirstEntityGraphs, h \in SecondEntityGraphs}

(* Three classes and one property: subclass edges with a cycle, a self      *)
(* loop and a parent that is no class; domains and ranges of every shape.   *)
TopologyGraphs ==
    LET c1 == <<1, 1>>
        c2 == <<1, 2>>
        c3 == <<1, 3>>
        p == <<1, 4>>
        all == {c1, c2, c3, p}
    IN  {Graph(Typed({c1, c2, c3}, _OWL_CLASS) \cup {<<p, kind>>},
               {p} \X dom, {p} \X (rng \cup {External}), sub, all, all) :
            kind \in {_OWL_OBJECT_PROPERTY, _OWL_DATATYPE_PROPERTY},
            dom \in SUBSET {c1, c2},
            rng \in SUBSET {c1, c3},
            sub \in SUBSET {<<c1, c2>>, <<c2, c1>>, <<c3, c3>>, <<c2, External>>}}

(* n classes of which the first `covered` are the domain and range of the   *)
(* first of m object properties, the next `taxonomy` hang in a subclass     *)
(* chain and the rest have no edge; every entity is labelled and commented. *)
ProfileGraph(n, covered, taxonomy, m) ==
    LET class(k) == <<1, k>>
        prop(j) == <<2, j>>
        classes == {class(k) : k \in 1..n}
        props == {prop(j) : j \in 1..m}
        cov == {class(k) : k \in 1..covered}
    IN  Graph(Typed(classes, _OWL_CLASS) \cup Typed(props, _OWL_OBJECT_PROPERTY),
              ({prop(1)} \X cov) \cup {<<prop(j), External>> : j \in 1..m},
              ({prop(1)} \X cov) \cup {<<prop(j), External>> : j \in 1..m},
              {<<class(k), class(IF k > 1 THEN k - 1 ELSE k)>> :
                  k \in (covered + 1)..(covered + taxonomy)},
              classes \cup props,
              classes \cup props)

(* The counts on either side of the three connectivity thresholds: the      *)
(* smallest count with count / n >= 0.40, the largest with count / n <= 0.65; *)
(* up to MaxDense classes, also every class covered.                         *)
CoverageEdge(n) == (_MIN_PROPERTY_COVERAGE * n + 99) \div 100

DensityEdge(n) == (_MIN_PROP_CLASS_RATIO * n + 99) \div 100

TaxonomyEdge(n) == (_MAX_TAXONOMY_ONLY_RATIO * n) \div 100

Profiles ==
    {q \in (0..MaxClasses) \X (0..MaxClasses) \X (0..MaxClasses) \X (0..MaxClasses) :
        /\ q[2] \in {0, CoverageEdge(q[1]) - 1, CoverageEdge(q[1])}
                      \cup (IF q[1] <= MaxDense THEN {q[1]} ELSE {})
        /\ q[2] + q[3] <= q[1]
        /\ q[3] \in {0, q[1] - q[2], TaxonomyEdge(q[1]), TaxonomyEdge(q[1]) + 1}
        /\ q[4] \in {DensityEdge(q[1]) - 1, DensityEdge(q[1])}
        /\ q[2] > 0 => q[4] > 0}

ProfileGraphs == {ProfileGraph(q[1], q[2], q[3], q[4]) : q \in Profiles}

(* k entities of one kind that all lack the same triples.                   *)
BulkGraph(k, kind, dom, rng, label, comment) ==
    LET S == {<<1, j>> : j \in 1..k}
    IN  Graph(Typed(S, kind),
              IF dom THEN S \X {External} ELSE {},
              IF rng THEN S \X {External} ELSE {},
              {},
              IF label THEN S ELSE {},
              IF comment THEN S ELSE {})

BulkGraphs ==
    {BulkGraph(k, kind, d, r, l, c) :
        k \in 0..MaxBulk, kind \in {_OWL_OBJECT_PROPERTY, _OWL_DATATYPE_PROPERTY},
        d \in BOOLEAN, r \in BOOLEAN, l \in BOOLEAN, c \in BOOLEAN}
    \cup
    {BulkGraph(k, kind, FALSE, FALSE, l, c) :
        k \in 0..MaxBulk, kind \in {_OWL_CLASS, _OWL_NAMED_INDIVIDUAL},
        l \in BOOLEAN, c \in BOOLEAN}

(* The scenario of the specification: classes A..E (names 1..5), A          *)
(* subClassOf B, C subClassOf D, property P with domain A and range C.      *)
ScenarioGraph ==
    LET A == <<1, 1>>
        B == <<1, 2>>
        C == <<1, 3>>
        D == <<1, 4>>
        E == <<1, 5>>
        P == <<1, 6>>
        all == {A, B, C, D, E, P}
    IN  Graph(Typed({A, B, C, D, E}, _OWL_CLASS) \cup {<<P, _OWL_OBJECT_PROPERTY>>},
              {<<P, A>>}, {<<P, C>>}, {<<A, B>>, <<C, D>>}, all, all)

(* Documents that do not load carry one of a few graphs, to show that the   *)
(* content is not looked at.                                                *)
SampleGraphs ==
    {EmptyGraph, ScenarioGraph,
     EntityGraph(<<1, 1>>, {_OWL_OBJECT_PROPERTY}, FALSE, FALSE, FALSE, FALSE)}

Document(file, top, members, graph_is_list, parses, graph) ==
    [file |-> file, top |-> top, members |-> members, graph_is_list |-> graph_is_list,
     parses |-> parses, graph |-> graph]

Loadable(graphs) ==
    {Document("json", "object", {"@context", "@graph"}, TRUE, TRUE, g) : g \in graphs}

UnloadableDocuments ==
    {Document(file, "object", {"@context", "@graph"}, TRUE, TRUE, g) :
        file \in {"absent", "not json"}, g \in SampleGraphs}
    \cup
    {Document("json", top, members, FALSE, FALSE, g) :
        top \in {"array", "string", "number", "boolean", "null"},
        members \in SUBSET {"@context", "@graph"}, g \in SampleGraphs}
    \cup
    {d \in {Document("json", "object", members, is_list, TRUE, g) :
                members \in SUBSET {"@context", "@graph"}, is_list \in BOOLEAN,
                g \in SampleGraphs} :
        ~("@context" \in d.members /\ "@graph" \in d.members /\ d.graph_is_list)}
    \cup
    {Document("json", "object", {"@context", "@graph"}, TRUE, FALSE, g) : g \in SampleGraphs}

(***************************************************************************)
(* The state machine: a document is on disk, validate_ontology is called    *)
(* once with the keyword arguments args (besides json_path) and ends on one *)
(* of its return statements or with an exception that it does not catch.    *)
(*                                                                         *)
(* The inputs: the one- and two-entity graphs with every triple of          *)
(* thresholds; the larger graphs and the documents that do not load with    *)
(* three equal thresholds; the three calls of the orchestration loop        *)
(* (agent.py) with the arguments their call expressions pass.               *)
(***************************************************************************)
AnyThresholds ==
    [min_classes : 0..MaxMin, min_properties : 0..MaxMin, min_individuals : 0..MaxMin]

EqualThresholds ==
    {[min_classes |-> t, min_properties |-> t, min_individuals |-> t] : t \in 0..MaxMin}

(* The calls of validate_ontology in agent.py: generate_ontology calls it   *)
(* at the head of every validation attempt and again after an enrichment,   *)
(* _review_loop after the generator applied the reviewer's feedback.        *)
OrchestrationCalls == {"validation attempt", "after enrichment", "after review feedback"}

(* validate_ontology(json_path=json_path): the keyword arguments each of    *)
(* the three call expressions passes besides json_path -- none.             *)
KeywordArguments(call) == EmptyDict

(* A call that passes the three thresholds, as the signature asks.          *)
WithThresholds == "with thresholds"

(* validate_ontology called on its own: no generate_ontology run is under   *)
(* way.                                                                     *)
NoRun == [function |-> "validate_ontology"]

(* def validate_ontology(json_path, min_classes, min_properties,            *)
(* min_individuals): no parameter has a default, so the call binds only     *)
(* when it passes all three thresholds.                                     *)
Binds ==
    {"min_classes", "min_properties", "min_individuals"} \subseteq DOMAIN args

Init ==
    /\ pc = "start"
    /\ result = NoResult
    /\ run = NoRun
    /\ \/ /\ doc \in Loadable(RuleGraphs)
          /\ hashSeed \in 0..MaxSeed
          /\ caller = WithThresholds
          /\ args \in AnyThresholds
       \/ /\ doc \in Loadable(TopologyGraphs \cup BulkGraphs \cup {ScenarioGraph})
          /\ hashSeed \in 0..MaxSeed
          /\ caller = WithThresholds
          /\ args \in EqualThresholds
       \/ /\ doc \in Loadable(ProfileGraphs) \cup UnloadableDocuments
          /\ hashSeed = 0
          /\ caller = WithThresholds
          /\ args \in EqualThresholds
       \/ /\ doc \in Loadable(SampleGraphs)
          /\ hashSeed = 0
          /\ caller \in OrchestrationCalls
          /\ args = KeywordArguments(caller)

(* Python binds the arguments before the body runs: a call that leaves a    *)
(* required parameter out raises TypeError (missing required positional     *)
(* arguments) at the call.                                                  *)
RaiseOnMissingArguments ==
    /\ pc = "start"
    /\ ~Binds
    /\ pc' = "raised"
    /\ result' = [exception |-> "TypeError"]
    /\ UNCHANGED <<doc, hashSeed, args, caller, run>>

Return(value) ==
    /\ pc = "start"
    /\ Binds
    /\ pc' = "returned"
    /\ result' = value
    /\ UNCHANGED <<doc, hashSeed, args, caller, run>>

(* if not json_path.exists(): return ...                                    *)
ReturnFileNotFound ==
    /\ doc.file = "absent"
    /\ Return(LoadFailure("File not found", <<>>, 1))

(* except json.JSONDecodeError: return ...                                  *)
ReturnInvalidJSON ==
    /\ doc.file = "not json"
    /\ Return(LoadFailure("Invalid JSON", <<>>, 1))

(* `"@context" not in data` raises TypeError on a number, a boolean or      *)
(* null; data.get raises AttributeError on an array or a string.  Nothing   *)
(* in validate_ontology catches either.                                     *)
RaiseOnNonObject ==
    /\ pc = "start"
    /\ Binds
    /\ doc.file = "json"
    /\ ~Supports_in(doc) \/ ~Supports_get(doc)
    /\ pc' = "raised"
    /\ result' = [exception |-> IF ~Supports_in(doc) THEN "TypeError" ELSE "AttributeError"]
    /\ UNCHANGED <<doc, hashSeed, args, caller, run>>

(* if errors: return ... (check 2)                                          *)
ReturnStructureErrors ==
    /\ doc.file = "json"
    /\ Supports_in(doc) /\ Supports_get(doc)
    /\ StructureErrors(doc) # <<>>
    /\ Return(LoadFailure("", StructureErrors(doc), Len(StructureErrors(doc))))

(* Variant: the parser's exception is swallowed and the rules run on the    *)
(* graph as far as it was read.                                             *)
ReturnParseFailure_Continues ==
    /\ doc.file = "json"
    /\ Supports_in(doc) /\ Supports_get(doc)
    /\ StructureErrors(doc) = <<>>
    /\ ~doc.parses
    /\ \E a \in {Analysis(doc.graph, hashSeed)} :
           Return(Failed(a, <<[rule |-> "rdflib failed to parse JSON-LD"]>>
                            \o Errors(a, args.min_classes, args.min_properties,
                                      args.min_individuals)))

(* except Exception: return ... (check 3)                                   *)
ReturnParseFailure ==
    /\ doc.file = "json"
    /\ Supports_in(doc) /\ Supports_get(doc)
    /\ StructureErrors(doc) = <<>>
    /\ ~doc.parses
    /\ Return(LoadFailure("rdflib failed to parse JSON-LD", <<>>, 1))

Parsed ==
    /\ Binds
    /\ doc.file = "json"
    /\ Supports_in(doc) /\ Supports_get(doc)
    /\ StructureErrors(doc) = <<>>
    /\ doc.parses

(* if errors: return ValidationResult(success=False, ...)                   *)
ReturnValidationFailed ==
    /\ pc = "start"
    /\ Parsed
    /\ \E a \in {Analysis(doc.graph, hashSeed)} :
           /\ Errors(a, args.min_classes, args.min_properties, args.min_individuals) # <<>>
           /\ Return(Failed(a, Errors(a, args.min_classes, args.min_properties,
                                      args.min_individuals)))

(* return ValidationResult(success=True, ...)                               *)
ReturnValidationPassed ==
    /\ pc = "start"
    /\ Parsed
    /\ \E a \in {Analysis(doc.graph, hashSeed)} :
           /\ Errors(a, args.min_classes, args.min_properties, args.min_individuals) = <<>>
           /\ Return(Passed(a))

Next ==
    \/ RaiseOnMissingArguments
    \/ ReturnFileNotFound
    \/ ReturnInvalidJSON
    \/ RaiseOnNonObject
    \/ ReturnStructureErrors
    \/ ReturnParseFailure
    \/ ReturnValidationFailed
    \/ ReturnValidationPassed

Spec == Init /\ [][Next]_vars

(***************************************************************************)
(* The classification on its own (validator.py, "Count entities by type").  *)
(* The document is the sequence of the rdf:type assertions as its nodes     *)
(* state them, repetitions included.  graph.parse adds them to the store,   *)
(* which holds a triple once and yields its triples in the order of its     *)
(* indices: any order.  The four scans then build the sets and the counts;  *)
(* scanning the same store again is the same step.                          *)
(***************************************************************************)
TypeAssertions == {<<e, k>> : e \in {<<1, 1>>, <<1, 2>>}, k \in Kinds}

RECURSIVE DocumentsOf(_)
DocumentsOf(n) ==
    IF n = 0 THEN {<<>>}
    ELSE DocumentsOf(n - 1)
         \cup {Append(d, t) : d \in {x \in DocumentsOf(n - 1) : Len(x) = n - 1},
                               t \in TypeAssertions}

Asserted(triples) == {triples[i] : i \in DOMAIN triples}

RECURSIVE Orderings(_)
Orderings(S) ==
    IF S = {} THEN {<<>>}
    ELSE UNION {{<<x>> \o rest : rest \in Orderings(S \ {x})} : x \in S}

(* Variant: an entity is classified by the first type triple the store      *)
(* yields for it.                                                           *)
Scan_FirstTypeOnly(store, kind) ==
    {store[i][1] : i \in {j \in DOMAIN store :
                             /\ store[j][2] = kind
                             /\ \A h \in 1..(j - 1) : store[h][1] # store[j][1]}}

(* set(s for s, _, _ in graph.triples((None, RDF.type, kind)))              *)
Scan(store, kind) ==
    {store[i][1] : i \in {j \in DOMAIN store : store[j][2] = kind}}

Classification(store) ==
    [store |-> store,
     classes |-> Scan(store, _OWL_CLASS),
     obj_props |-> Scan(store, _OWL_OBJECT_PROPERTY),
     data_props |-> Scan(store, _OWL_DATATYPE_PROPERTY),
     individuals |-> Scan(store, _OWL_NAMED_INDIVIDUAL),
     stats |-> Stats(Scan(store, _OWL_CLASS), Scan(store, _OWL_OBJECT_PROPERTY),
                     Scan(store, _OWL_DATATYPE_PROPERTY),
                     Scan(store, _OWL_NAMED_INDIVIDUAL))]

ClassifyInit ==
    /\ pc = "start"
    /\ result = NoResult
    /\ run = NoRun
    /\ doc \in DocumentsOf(MaxTriples)
    /\ hashSeed = 0
    /\ caller = WithThresholds
    /\ args \in EqualThresholds

(* graph = Graph(); graph.parse(data=json.dumps(data), format="json-ld")    *)
ParseDocument ==
    /\ pc = "start"
    /\ pc' = "parsed"
    /\ \E store \in Orderings(Asserted(doc)) : result' = [store |-> store]
    /\ UNCHANGED <<doc, hashSeed, args, caller, run>>

(* classes = ..., obj_props = ..., data_props = ..., individuals = ...,     *)
(* stats = {...}: the scans read the store and leave it as it is.           *)
Classify ==
    /\ pc \in {"parsed", "classified"}
    /\ pc' = "classified"
    /\ result' = Classification(result.store)
    /\ UNCHANGED <<doc, hashSeed, args, caller, run>>

ClassifyNext ==
    \/ ParseDocument
    \/ Classify

ClassifySpec == ClassifyInit /\ [][ClassifyNext]_vars

(***************************************************************************)
(* generate_ontology (src/src/ontology_engine/agent.py).  The run's state   *)
(* is the output file on disk (doc), the position in the function (pc),     *)
(* the local variables and the agent invocations made so far (run), the     *)
(* call of validate_ontology in progress (caller, args) and what the run    *)
(* gave back (result).  The agent SDK is the environment: an invocation     *)
(* may succeed or not, may or may not deliver an init message carrying a    *)
(* session id, may or may not leave the output file written, and may stall  *)
(* until the idle timeout.                                                  *)
(***************************************************************************)

(* session_id = None *)
None == "None"

(* message.session_id of an init message *)
SessionIds == {"session A", "session B"}

(* config.py: the four attempt limits.                                      *)
Configurations ==
    [MAX_VALIDATION_ATTEMPTS : 0..MaxAttempts,
     MAX_CONTINUATION_ATTEMPTS : 0..MaxAttempts,
     MAX_ENRICHMENT_ATTEMPTS : 0..MaxAttempts,
     MAX_REVIEW_ATTEMPTS : 0..MaxAttempts]

(* json_path on disk: not there, or written by the agent's tools.           *)
OutputFiles ==
    {Document("absent", "object", {"@context", "@graph"}, TRUE, TRUE, EmptyGraph)}
    \cup Loadable({ScenarioGraph})

(* What an invocation leaves on disk: the file as it was, or a written one. *)
OutputFilesAfter(file) == {file} \cup Loadable({ScenarioGraph})

(* if session_id: opts.resume = session_id                                  *)
_agent_options(session_id) ==
    IF session_id # None THEN [resume |-> session_id] ELSE EmptyDict

(* return success, session_id: success only after a ResultMessage of        *)
(* subtype "success", session_id only after an init message; an SDK error   *)
(* is swallowed and returns what was captured before it.                    *)
AgentOutcomes == [success : BOOLEAN, session_id : SessionIds \cup {None}]

(* OntologyResult(success=..., error=...)                                   *)
OntologyResult(success, error) == [success |-> success, error |-> error]

(* agent_ok, session_id = await _run_agent(prompt, _agent_options(...,      *)
(* session_id)): both locals are overwritten by what this invocation        *)
(* returned.                                                                *)
Invoked(kind, session_id, outcome) ==
    [run EXCEPT !.agent_ok = outcome.success,
                !.session_id = outcome.session_id,
                !.invocations = Append(@, [kind |-> kind,
                                           options |-> _agent_options(session_id),
                                           success |-> outcome.success,
                                           session_id |-> outcome.session_id])]

(* raise StreamIdleTimeout inside _run_agent: nothing is assigned.          *)
Stalled(kind, session_id) ==
    [run EXCEPT !.invocations = Append(@, [kind |-> kind,
                                           options |-> _agent_options(session_id),
                                           success |-> FALSE,
                                           session_id |-> None])]

AgentInit ==
    /\ pc = "start"
    /\ result = NoResult
    /\ hashSeed = 0
    /\ caller = "generate_ontology"
    /\ args = EmptyDict
    /\ doc \in OutputFiles
    /\ \E config \in Configurations :
         run = [config |-> config, agent_ok |-> FALSE, session_id |-> None,
                cont_attempt |-> 0, attempt |-> 0, invocations |-> <<>>]

(* Phase 1: agent_ok, session_id = await _run_agent(gen_prompt,             *)
(* _agent_options(model, max_turns)); if not agent_ok: the continuation     *)
(* loop.                                                                    *)
Generate ==
    /\ pc = "start"
    /\ \E outcome \in AgentOutcomes, written \in OutputFilesAfter(doc) :
         /\ run' = Invoked("generation", None, outcome)
         /\ doc' = written
         /\ pc' = IF outcome.success THEN "validation" ELSE "continuation"
    /\ UNCHANGED <<hashSeed, args, result, caller>>

(* for cont_attempt in range(1, MAX_CONTINUATION_ATTEMPTS + 1): run the     *)
(* agent with session_id=session_id; if agent_ok: break                     *)
Continue_OneMore ==
    /\ pc = "continuation"
    /\ run.cont_attempt <= run.config.MAX_CONTINUATION_ATTEMPTS
    /\ \E outcome \in AgentOutcomes, written \in OutputFilesAfter(doc) :
         /\ run' = [Invoked("continuation", run.session_id, outcome)
                        EXCEPT !.cont_attempt = @ + 1]
         /\ doc' = written
         /\ pc' = IF outcome.success THEN "validation" ELSE "continuation"
    /\ UNCHANGED <<hashSeed, args, result, caller>>

Continue ==
    /\ pc = "continuation"
    /\ run.cont_attempt < run.config.MAX_CONTINUATION_ATTEMPTS
    /\ \E outcome \in AgentOutcomes, written \in OutputFilesAfter(doc) :
         /\ run' = [Invoked("continuation", run.session_id, outcome)
                        EXCEPT !.cont_attempt = @ + 1]
         /\ doc' = written
         /\ pc' = IF outcome.success THEN "validation" ELSE "continuation"
    /\ UNCHANGED <<hashSeed, args, result, caller>>

(* except StreamIdleTimeout: raise -- _run_agent lets the idle timeout      *)
(* through and generate_ontology has no handler for it.                     *)
RaiseStreamIdleTimeout ==
    /\ \/ /\ pc = "start"
          /\ run' = Stalled("generation", None)
       \/ /\ pc = "continuation"
          /\ run.cont_attempt < run.config.MAX_CONTINUATION_ATTEMPTS
          /\ run' = [Stalled("continuation", run.session_id)
                         EXCEPT !.cont_attempt = @ + 1]
    /\ pc' = "raised"
    /\ result' = [exception |-> "StreamIdleTimeout"]
    /\ UNCHANGED <<doc, hashSeed, args, caller>>

(* if not agent_ok: if not json_path.exists(): return OntologyResult(...)   *)
ReturnGenerationFailed ==
    /\ pc = "continuation"
    /\ run.cont_attempt = run.config.MAX_CONTINUATION_ATTEMPTS
    /\ doc.file = "absent"
    /\ pc' = "returned"
    /\ result' = OntologyResult(FALSE, "Agent failed to generate ontology file.")
    /\ UNCHANGED <<doc, hashSeed, args, caller, run>>

(* "Still attempt validation -- the file may exist on disk"                 *)
ValidateFileOnDisk ==
    /\ pc = "continuation"
    /\ run.cont_attempt = run.config.MAX_CONTINUATION_ATTEMPTS
    /\ doc.file # "absent"
    /\ pc' = "validation"
    /\ UNCHANGED <<doc, hashSeed, args, result, caller, run>>

(* for attempt in range(1, MAX_VALIDATION_ATTEMPTS + 1):                    *)
(*     result = validate_ontology(json_path=json_path)                      *)
(* The call passes the keyword arguments of KeywordArguments and does not   *)
(* bind (Binds): TypeError is raised at the call, nothing in                *)
(* generate_ontology catches it, and the rest of the loop body (the         *)
(* enrichment loop, _review_loop, the conversion, the fix prompt) is not    *)
(* reached.                                                                 *)
ValidationAttempt ==
    /\ pc = "validation"
    /\ run.attempt < run.config.MAX_VALIDATION_ATTEMPTS
    /\ run' = [run EXCEPT !.attempt = @ + 1]
    /\ caller' = "validation attempt"
    /\ args' = KeywordArguments(caller')
    /\ ~Binds'
    /\ pc' = "raised"
    /\ result' = [exception |-> "TypeError"]
    /\ UNCHANGED <<doc, hashSeed>>

(* The loop is exhausted: return OntologyResult(success=False, ...,         *)
(* error="Unexpected: exited validation loop without result.")              *)
ReturnUnexpected ==
    /\ pc = "validation"
    /\ run.attempt = run.config.MAX_VALIDATION_ATTEMPTS
    /\ pc' = "returned"
    /\ result' = OntologyResult(FALSE, "Unexpected: exited validation loop without result.")
    /\ UNCHANGED <<doc, hashSeed, args, caller, run>>

AgentNext ==
    \/ Generate
    \/ Continue
    \/ RaiseStreamIdleTimeout
    \/ ReturnGenerationFailed
    \/ ValidateFileOnDisk
    \/ ValidationAttempt
    \/ ReturnUnexpected

AgentSpec == AgentInit /\ [][AgentNext]_vars

(* Every await of generate_ontology is run to its end by asyncio.run        *)
(* (main.py): a run that can take a step takes one.                         *)
AgentFairSpec == AgentSpec /\ WF_vars(AgentNext)

(***************************************************************************)
(* Properties.  They are stated on the document, the thresholds and the     *)
(* returned result, with the sets of the graph written out from its         *)
(* triples.                                                                 *)
(***************************************************************************)
Declared(kind) == {t[1] : t \in {x \in doc.graph.types : x[2] = kind}}

Concepts == Declared(_OWL_CLASS)

Relational == Declared(_OWL_OBJECT_PROPERTY)

Properties == Declared(_OWL_OBJECT_PROPERTY) \cup Declared(_OWL_DATATYPE_PROPERTY)

AllEntities == Concepts \cup Properties \cup Declared(_OWL_NAMED_INDIVIDUAL)

ReturnedFromGraph == pc = "returned" /\ Parsed

ReturnedLoadFailure == pc = "returned" /\ ~Parsed

Violations == result.raw_output.errors

Reported(rule) == {i \in 1..Len(Violations) : Violations[i].rule = rule}

NoDomain(p) == \A t \in doc.graph.dom : t[1] # p

NoRange(p) == \A t \in doc.graph.rng : t[1] # p

Times(x, s) == Cardinality({i \in 1..Len(s) : s[i] = x})

(* C1: for every parsed graph and thresholds, FR-001, FR-002 (on the union  *)
(* of object and datatype properties) and FR-003 are each reported once     *)
(* when the count is strictly below its threshold and not at all when the   *)
(* count equals or exceeds it.                                              *)
C1_CountRules ==
    ReturnedFromGraph =>
        /\ Cardinality(Reported("FR-001: Too few classes"))
             = IF Cardinality(Concepts) < args.min_classes THEN 1 ELSE 0
        /\ Cardinality(Reported("FR-002: Too few properties"))
             = IF Cardinality(Properties) < args.min_properties THEN 1 ELSE 0
        /\ Cardinality(Reported("FR-003: Too few individuals"))
             = IF Cardinality(Declared(_OWL_NAMED_INDIVIDUAL)) < args.min_individuals
               THEN 1 ELSE 0

(* C1 witness: a class count equal to a positive threshold passes while the *)
(* property count, one entity that is both an object and a datatype         *)
(* property, is below its threshold.                                        *)
C1_Witness ==
    /\ ReturnedFromGraph
    /\ args.min_classes > 0
    /\ Cardinality(Concepts) = args.min_classes
    /\ Declared(_OWL_OBJECT_PROPERTY) \cap Declared(_OWL_DATATYPE_PROPERTY) # {}
    /\ Reported("FR-001: Too few classes") = {}
    /\ Reported("FR-002: Too few properties") # {}

NamedIn(rule, p) ==
    \E i \in Reported(rule) :
        \E j \in 1..Len(Violations[i].listing.names) :
            Violations[i].listing.names[j] = _local_name(p)

(* An entry of the list that no offending property accounts for carries     *)
(* the local name of p.                                                     *)
ExtraEntryFor(rule, offenders, p) ==
    \E i \in Reported(rule) :
        Times(_local_name(p), Violations[i].listing.names)
          > Cardinality({q \in offenders : _local_name(q) = _local_name(p)})

(* C2 as claimed: every property without a domain (range) triple is named   *)
(* in the missing-domain (missing-range) violation, however many offend,    *)
(* and a property with both is named in neither.                            *)
C2_AllOffendersNamed ==
    ReturnedFromGraph =>
        \A p \in Properties :
            /\ NoDomain(p) => NamedIn("FR-004: Properties missing rdfs:domain", p)
            /\ NoRange(p) => NamedIn("FR-004: Properties missing rdfs:range", p)
            /\ ~NoDomain(p) /\ ~NoRange(p) =>
                   /\ ~ExtraEntryFor("FR-004: Properties missing rdfs:domain",
                                     {q \in Properties : NoDomain(q)}, p)
                   /\ ~ExtraEntryFor("FR-004: Properties missing rdfs:range",
                                     {q \in Properties : NoRange(q)}, p)

ListsOffenders(rule, offenders) ==
    IF offenders = {}
    THEN Reported(rule) = {}
    ELSE /\ Cardinality(Reported(rule)) = 1
         /\ \A i \in Reported(rule) :
                LET names == Violations[i].listing.names
                    more == Violations[i].listing.more
                    n == Cardinality(offenders)
                IN  /\ Len(names) = IF n > ListingCap THEN ListingCap ELSE n
                    /\ more = IF n > ListingCap THEN <<n - ListingCap>> ELSE <<>>
                    /\ \A j \in 1..Len(names) :
                           Times(names[j], names)
                             <= Cardinality({p \in offenders : _local_name(p) = names[j]})
                    /\ n <= ListingCap =>
                           \A p \in offenders :
                               Times(_local_name(p), names)
                                 = Cardinality({q \in offenders : _local_name(q) = _local_name(p)})

(* C2 amended: the violation lists the local names of the offending         *)
(* properties only, one entry per offender, cut to the first 10 with the    *)
(* number of the others; up to 10 offenders are all named.                  *)
C2_OffendersListedUpToCap ==
    ReturnedFromGraph =>
        /\ ListsOffenders("FR-004: Properties missing rdfs:domain",
                          {p \in Properties : NoDomain(p)})
        /\ ListsOffenders("FR-004: Properties missing rdfs:range",
                          {p \in Properties : NoRange(p)})

(* C2 witness: more than 10 properties lack a domain and none lacks a range *)
C2_Witness ==
    /\ ReturnedFromGraph
    /\ Cardinality({p \in Properties : NoDomain(p)}) > ListingCap
    /\ {p \in Properties : NoRange(p)} = {}
    /\ Reported("FR-004: Properties missing rdfs:domain") # {}
    /\ Reported("FR-004: Properties missing rdfs:range") = {}

StructureRules ==
    {"Missing @context in JSON-LD root", "Missing @graph in JSON-LD root",
     "@graph must be a JSON array"}

(* A document that does not load: the file is absent or is not JSON, the    *)
(* top-level value has no @context or no @graph array, or the graph parser  *)
(* rejects it.                                                              *)
LoadFails ==
    \/ doc.file # "json"
    \/ doc.top # "object"
    \/ "@context" \notin doc.members
    \/ "@graph" \notin doc.members
    \/ ~doc.graph_is_list
    \/ ~doc.parses

(* C3: on every return path success is true exactly when error_count is 0,  *)
(* and every load failure returns, with success false and error_count >= 1. *)
C3_LoadFailureReturnsFailed ==
    /\ pc = "returned" => (result.success <=> result.error_count = 0)
    /\ LoadFails =>
           /\ pc # "raised"
           /\ pc = "returned" => ~result.success /\ result.error_count >= 1

RuleOrder ==
    <<"FR-001: Too few classes", "FR-002: Too few properties",
      "FR-003: Too few individuals", "FR-004: Properties missing rdfs:domain",
      "FR-004: Properties missing rdfs:range", "FR-005: Entities missing rdfs:label",
      "FR-005: Entities missing rdfs:comment">>

Violated(rule) ==
    CASE rule = RuleOrder[1] -> Cardinality(Concepts) < args.min_classes
      [] rule = RuleOrder[2] -> Cardinality(Properties) < args.min_properties
      [] rule = RuleOrder[3] ->
             Cardinality(Declared(_OWL_NAMED_INDIVIDUAL)) < args.min_individuals
      [] rule = RuleOrder[4] -> \E p \in Properties : NoDomain(p)
      [] rule = RuleOrder[5] -> \E p \in Properties : NoRange(p)
      [] rule = RuleOrder[6] -> \E e \in AllEntities : e \notin doc.graph.label
      [] rule = RuleOrder[7] -> \E e \in AllEntities : e \notin doc.graph.comment

(* C4: the violation list holds one entry for each violated rule of the     *)
(* seven and none for a satisfied one, in the order classes, properties,    *)
(* individuals, missing domain, missing range, missing label, missing       *)
(* comment; error_count is the number of entries.                           *)
C4_ViolatedRulesInOrder ==
    ReturnedFromGraph =>
        /\ Len(Violations) = Len(SelectSeq(RuleOrder, Violated))
        /\ \A i \in 1..Len(Violations) :
               Violations[i].rule = SelectSeq(RuleOrder, Violated)[i]
        /\ result.error_count = Len(Violations)

(* C4 witness: the three count rules hold while the four listing rules are  *)
(* violated, so the list starts at the fourth rule.                         *)
C4_Witness ==
    /\ ReturnedFromGraph
    /\ Len(Violations) = 4
    /\ Violations[1].rule = RuleOrder[4]
    /\ Violations[4].rule = RuleOrder[7]
    /\ args.min_properties > 0

LacksField ==
    \/ doc.top # "object"
    \/ "@context" \notin doc.members
    \/ "@graph" \notin doc.members
    \/ ~doc.graph_is_list

(* C5: a JSON document of any top-level type that lacks @context or @graph  *)
(* makes validate_ontology return a failed result, never raise; the result  *)
(* lists the missing-context error exactly when @context is missing and the *)
(* graph errors exactly when @graph is missing or not an array.             *)
C5_MissingFieldsReturnFailure ==
    doc.file = "json" /\ LacksField =>
        /\ pc # "raised"
        /\ pc = "returned" =>
               /\ ~result.success
               /\ Reported("Missing @context in JSON-LD root") # {}
                    <=> (doc.top # "object" \/ "@context" \notin doc.members)
               /\ Reported("Missing @graph in JSON-LD root") # {}
                    <=> (doc.top # "object" \/ "@graph" \notin doc.members)
               /\ Reported("Missing @context in JSON-LD root")
                    \cap Reported("Missing @graph in JSON-LD root") = {}

(* C6: a result returned for a document that does not load has empty stats, *)
(* empty connectivity and the empty string as report, and its message holds *)
(* nothing but the load failure: no count, no rule of the seven.            *)
C6_LoadFailureCarriesNothingElse ==
    ReturnedLoadFailure =>
        /\ DOMAIN result.stats = {}
        /\ DOMAIN result.connectivity = {}
        /\ result.connectivity_report = <<>>
        /\ DOMAIN result.raw_output = {"text", "errors"}
        /\ \A i \in 1..Len(Violations) : Violations[i].rule \in StructureRules

(* C6 witness: the parser rejects a document whose graph, had it been       *)
(* classified, would violate the count rules and the listing rules.         *)
C6_Witness ==
    /\ ReturnedLoadFailure
    /\ ~doc.parses
    /\ "@context" \in doc.members /\ "@graph" \in doc.members /\ doc.graph_is_list
    /\ doc.graph.types # {}
    /\ doc.graph.label = {}
    /\ args.min_classes > 0

MetricNames ==
    {"orphan_classes", "property_coverage", "property_to_class_ratio",
     "connected_components", "avg_class_degree", "taxonomy_only_classes", "is_sparse"}

(* The metrics as the graph alone determines them: two concepts are linked  *)
(* by a subclass triple between them or by a relational property with one   *)
(* in its domain and the other in its range.                                *)
Covered ==
    {c \in Concepts : \E p \in Relational :
        <<p, c>> \in doc.graph.dom \/ <<p, c>> \in doc.graph.rng}

Linked(c, d) ==
    \/ <<c, d>> \in doc.graph.sub
    \/ <<d, c>> \in doc.graph.sub
    \/ \E p \in Relational :
           \/ <<p, c>> \in doc.graph.dom /\ <<p, d>> \in doc.graph.rng
           \/ <<p, d>> \in doc.graph.dom /\ <<p, c>> \in doc.graph.rng

Neighbours(c) == {d \in Concepts : Linked(c, d)}

Beyond(seen, frontier) == UNION {Neighbours(c) : c \in frontier} \ seen

RECURSIVE ReachFrom(_, _)
ReachFrom(seen, frontier) ==
    IF frontier = {} THEN seen
    ELSE ReachFrom(seen \cup frontier, Beyond(seen \cup frontier, frontier))

Reach(S) == ReachFrom({}, S)

HierarchyOnly == {c \in Concepts \ Covered : Neighbours(c) # {}}

Fraction(num, den, scale) == IF den = 0 THEN 0 ELSE RoundScaled(num, den, scale)

GraphMetrics ==
    LET n == Cardinality(Concepts)
    IN  [orphan_classes |-> Cardinality({c \in Concepts : Neighbours(c) = {}}),
         property_coverage |-> Fraction(Cardinality(Covered), n, 1000),
         property_to_class_ratio |-> Fraction(Cardinality(Relational), n, 1000),
         connected_components |-> Cardinality({Reach({c}) : c \in Concepts}),
         avg_class_degree |->
             Fraction(Cardinality({e \in Concepts \X Concepts : Linked(e[1], e[2])}), n, 100),
         taxonomy_only_classes |-> Cardinality(HierarchyOnly),
         is_sparse |->
             /\ n # 0
             /\ \/ 100 * Cardinality(Covered) < _MIN_PROPERTY_COVERAGE * n
                \/ 100 * Cardinality(Relational) < _MIN_PROP_CLASS_RATIO * n
                \/ 100 * Cardinality(HierarchyOnly) > _MAX_TAXONOMY_ONLY_RATIO * n]

(* C7: for a document that parses, failed or passed, the result carries the *)
(* four entity counts, the seven connectivity metrics and a non-empty       *)
(* report; metrics and report are those of the graph, whatever the three    *)
(* thresholds are.                                                          *)
C7_AnalysisAlwaysAttached ==
    ReturnedFromGraph =>
        /\ DOMAIN result.stats
             = {"classes", "object_properties", "data_properties", "individuals"}
        /\ result.stats.classes = Cardinality(Concepts)
        /\ result.stats.object_properties = Cardinality(Relational)
        /\ result.stats.data_properties = Cardinality(Declared(_OWL_DATATYPE_PROPERTY))
        /\ result.stats.individuals = Cardinality(Declared(_OWL_NAMED_INDIVIDUAL))
        /\ DOMAIN result.connectivity = MetricNames
        /\ result.connectivity_report # <<>>
        /\ result.connectivity = GraphMetrics
        /\ result.connectivity_report
             = _connectivity_metrics(doc.graph, Concepts, Relational,
                                     Declared(_OWL_DATATYPE_PROPERTY),
                                     Declared(_OWL_NAMED_INDIVIDUAL), hashSeed).report

(* C7 witness: a call that fails a count rule only because of its           *)
(* thresholds, on a graph with classes, returns the analysis.               *)
C7_Witness ==
    /\ ReturnedFromGraph
    /\ ~result.success
    /\ Reported("FR-003: Too few individuals") # {}
    /\ Len(Violations) = 1
    /\ Cardinality(Concepts) >= 3
    /\ result.connectivity.connected_components >= 2

(* C8: is_sparse is true exactly when there is a concept and concepts in a  *)
(* relational domain or range / concepts < 0.40, or relational properties / *)
(* concepts < 0.40, or taxonomy-only concepts / concepts > 0.65, compared   *)
(* exactly; with no concept it is false.                                    *)
C8_SparseFlag ==
    ReturnedFromGraph =>
        LET n == Cardinality(Concepts)
        IN  result.connectivity.is_sparse
              <=> /\ n # 0
                  /\ \/ 100 * Cardinality(Covered) < _MIN_PROPERTY_COVERAGE * n
                     \/ 100 * Cardinality(Relational) < _MIN_PROP_CLASS_RATIO * n
                     \/ 100 * Cardinality(HierarchyOnly) > _MAX_TAXONOMY_ONLY_RATIO * n

(* C8 witness: coverage and ratio both exactly 0.40 and the flag not set.   *)
C8_Witness ==
    /\ ReturnedFromGraph
    /\ Cardinality(Concepts) > 0
    /\ 100 * Cardinality(Covered) = _MIN_PROPERTY_COVERAGE * Cardinality(Concepts)
    /\ 100 * Cardinality(Relational) = _MIN_PROP_CLASS_RATIO * Cardinality(Concepts)
    /\ ~result.connectivity.is_sparse

(* The warnings of a report, by the words that start them.                  *)
WarningsOf(report, words) ==
    {i \in 1..Len(report) : report[i].line = "- " /\ report[i].text.warning = words}

InScenario == ReturnedFromGraph /\ doc.graph = ScenarioGraph

(* C9: in the scenario (A subClassOf B, C subClassOf D, P from A to C, E    *)
(* alone) there are two components, {A, B, C, D} and {E}, one orphan, E,    *)
(* and property_coverage is 0.40.                                           *)
C9_ScenarioComponents ==
    InScenario =>
        /\ result.connectivity.connected_components = 2
        /\ result.connectivity.orphan_classes = 1
        /\ result.connectivity.property_coverage = 400
        /\ \E i \in WarningsOf(result.connectivity_report, "disconnected components") :
               result.connectivity_report[i].text.summaries
                 = <<[index |-> 1, names |-> <<1, 2, 3, 4>>, total |-> <<>>],
                     [index |-> 2, names |-> <<5>>, total |-> <<>>]>>
        /\ \E i \in WarningsOf(result.connectivity_report, "orphan class(es)") :
               result.connectivity_report[i].text.preview
                 = [names |-> <<5>>, more |-> <<>>]

(* C9 witness: the call on the scenario has returned its two components.    *)
C9_Witness ==
    /\ InScenario
    /\ hashSeed > 0
    /\ result.connectivity.connected_components = 2

(* C10 as claimed: in the scenario is_sparse is true through the coverage   *)
(* check and the report lists the low-coverage warning.                     *)
C10_SparseViaCoverage ==
    InScenario =>
        /\ result.connectivity.is_sparse
        /\ 100 * Cardinality(Covered) < _MIN_PROPERTY_COVERAGE * Cardinality(Concepts)
        /\ WarningsOf(result.connectivity_report, "Property coverage is LOW") # {}

(* C10 amended: in the scenario is_sparse is true through the property-to-  *)
(* class ratio, 1 / 5 = 0.20 < 0.40; coverage is exactly 0.40, not below    *)
(* it, and the report lists the ratio warning and no low-coverage warning.  *)
C10_SparseViaRatio ==
    InScenario =>
        /\ result.connectivity.is_sparse
        /\ 100 * Cardinality(Covered) = _MIN_PROPERTY_COVERAGE * Cardinality(Concepts)
        /\ 100 * Cardinality(Relational) < _MIN_PROP_CLASS_RATIO * Cardinality(Concepts)
        /\ 100 * Cardinality(HierarchyOnly)
             <= _MAX_TAXONOMY_ONLY_RATIO * Cardinality(Concepts)
        /\ WarningsOf(result.connectivity_report, "Property coverage is LOW") = {}
        /\ \E i \in WarningsOf(result.connectivity_report, "Property-to-class ratio") :
               /\ result.connectivity_report[i].text.ratio = 20
               /\ result.connectivity_report[i].text.properties = 1
               /\ result.connectivity_report[i].text.classes = 5

(* C10 witness: the call on the scenario has returned with the flag set.    *)
C10_Witness ==
    /\ InScenario
    /\ result.connectivity.is_sparse
    /\ result.connectivity.property_to_class_ratio = 200

(* Concepts only: no subtype triple and no relational property.             *)
Disconnected == ReturnedFromGraph /\ doc.graph.sub = {} /\ Relational = {}

(* C11 as claimed: for every N, N concepts with no subtype edge and no      *)
(* relational property give connected_components = N, property_coverage =   *)
(* 0.0 and is_sparse true.                                                  *)
C11_DisconnectedIsSparse ==
    Disconnected =>
        /\ result.connectivity.connected_components = Cardinality(Concepts)
        /\ result.connectivity.property_coverage = 0
        /\ result.connectivity.is_sparse

(* C11 amended: the same with is_sparse true for N >= 1 and false for N = 0 *)
C11_DisconnectedIsSparseUnlessEmpty ==
    Disconnected =>
        /\ result.connectivity.connected_components = Cardinality(Concepts)
        /\ result.connectivity.property_coverage = 0
        /\ result.connectivity.is_sparse <=> Cardinality(Concepts) >= 1

(* C11 witness: more concepts than a listing shows, each its own component. *)
C11_Witness ==
    /\ Disconnected
    /\ Cardinality(Concepts) > ListingCap
    /\ result.connectivity.connected_components > ListingCap
    /\ result.connectivity.is_sparse

(* C12: when every concept is in the domain or range of a relational        *)
(* property, relational properties / concepts >= 0.40 and no concept is     *)
(* taxonomy-only, is_sparse is false.                                       *)
C12_DenseIsNotSparse ==
    (/\ ReturnedFromGraph
     /\ Covered = Concepts
     /\ 100 * Cardinality(Relational) >= _MIN_PROP_CLASS_RATIO * Cardinality(Concepts)
     /\ HierarchyOnly = {})
    => ~result.connectivity.is_sparse

(* C12 witness: all of several concepts covered and the ratio exactly 0.40. *)
C12_Witness ==
    /\ ReturnedFromGraph
    /\ Cardinality(Concepts) > 1
    /\ Covered = Concepts
    /\ 100 * Cardinality(Relational) = _MIN_PROP_CLASS_RATIO * Cardinality(Concepts)
    /\ ~result.connectivity.is_sparse

(* The line of the report that gives the coverage: the warning when it is   *)
(* low, the line of the passed checks when no warning is listed.            *)
CoverageLines(report) ==
    {i \in 1..Len(report) :
        \/ report[i].line = "- Property coverage"
        \/ report[i].line = "- " /\ report[i].text.warning = "Property coverage is LOW"}

CoverageShown(r) == IF r.line = "- " THEN r.text ELSE r

(* C13: property_coverage is the number of concepts that are a domain or a  *)
(* range of a relational property over the number of concepts, 0 with no    *)
(* concept; targets that are not concepts do not count and the value is in  *)
(* [0, 1].  The metric holds it to three decimals.                          *)
C13_CoverageIsCoveredOverConcepts ==
    ReturnedFromGraph =>
        /\ result.connectivity.property_coverage
             = Fraction(Cardinality(Covered), Cardinality(Concepts), 1000)
        /\ result.connectivity.property_coverage \in 0..1000
        /\ \A i \in CoverageLines(result.connectivity_report) :
               /\ CoverageShown(result.connectivity_report[i]).covered = Cardinality(Covered)
               /\ CoverageShown(result.connectivity_report[i]).classes = Cardinality(Concepts)
               /\ CoverageShown(result.connectivity_report[i]).covered
                    <= CoverageShown(result.connectivity_report[i]).classes

(* C13 witness: a property whose range holds a URI that is no concept next  *)
(* to concepts, some of them covered.                                       *)
C13_Witness ==
    /\ ReturnedFromGraph
    /\ \E t \in doc.graph.rng : t[1] \in Relational /\ t[2] \notin Concepts
    /\ Covered # {}
    /\ Covered # Concepts
    /\ result.connectivity.property_coverage \in 1..999

(* C14: the report is the same whatever order the sets are iterated in: the *)
(* report returned equals the report of the same graph under every other    *)
(* iteration order.                                                         *)
C14_ReportIndependentOfIterationOrder ==
    ReturnedFromGraph =>
        \A seed \in 0..MaxSeed :
            result.connectivity_report
              = _connectivity_metrics(doc.graph, Concepts, Relational,
                                      Declared(_OWL_DATATYPE_PROPERTY),
                                      Declared(_OWL_NAMED_INDIVIDUAL), seed).report

StatOf(kind) ==
    CASE kind = _OWL_CLASS -> result.stats.classes
      [] kind = _OWL_OBJECT_PROPERTY -> result.stats.object_properties
      [] kind = _OWL_DATATYPE_PROPERTY -> result.stats.data_properties
      [] kind = _OWL_NAMED_INDIVIDUAL -> result.stats.individuals

TypeSubjects == {t[1] : t \in doc.graph.types}

ListedCount(rule) ==
    IF Reported(rule) = {} THEN 0
    ELSE LET l == Violations[CHOOSE i \in Reported(rule) : TRUE].listing
         IN  IF l.more = <<>> THEN Len(l.names) ELSE ListingCap + l.more[1]

(* C15: for each of the four kinds the classified set holds exactly the     *)
(* entities with a type triple of that kind, so an entity of several kinds  *)
(* counts in each, and an entity without a type triple of the four kinds is *)
(* in no set: it is not among the entities checked for a label.             *)
C15_ClassifiedByEachTypeTriple ==
    ReturnedFromGraph =>
        /\ \A kind \in Kinds :
               StatOf(kind) = Cardinality({e \in TypeSubjects : <<e, kind>> \in doc.graph.types})
        /\ ListedCount("FR-005: Entities missing rdfs:label")
             = Cardinality({e \in TypeSubjects :
                   /\ \E kind \in Kinds : <<e, kind>> \in doc.graph.types
                   /\ e \notin doc.graph.label})

(* C15 witness: one entity is both a class and an individual and counts as  *)
(* each, next to nothing else.                                              *)
C15_Witness ==
    /\ ReturnedFromGraph
    /\ Cardinality(TypeSubjects) = 1
    /\ result.stats.classes = 1
    /\ result.stats.individuals = 1
    /\ ListedCount("FR-005: Entities missing rdfs:label") = 1

ClassifiedSets ==
    <<Classes(doc.graph), ObjProps(doc.graph), DataProps(doc.graph), Individuals(doc.graph)>>

KindOfSet == <<_OWL_CLASS, _OWL_OBJECT_PROPERTY, _OWL_DATATYPE_PROPERTY, _OWL_NAMED_INDIVIDUAL>>

(* C16 as claimed: the four classified sets are pairwise disjoint.          *)
C16_SetsPairwiseDisjoint ==
    ReturnedFromGraph =>
        \A i, j \in 1..4 : i # j => ClassifiedSets[i] \cap ClassifiedSets[j] = {}

(* C16 amended: two of the four sets share exactly the entities that have   *)
(* a type triple of both kinds; the sets are pairwise disjoint, and the     *)
(* four counts add up to the number of classified entities, exactly when no *)
(* entity has type triples of two of the four kinds.                        *)
C16_SetsShareMultiTypedEntities ==
    ReturnedFromGraph =>
        /\ \A i, j \in 1..4 : i # j =>
               ClassifiedSets[i] \cap ClassifiedSets[j]
                 = {e \in TypeSubjects : /\ <<e, KindOfSet[i]>> \in doc.graph.types
                                         /\ <<e, KindOfSet[j]>> \in doc.graph.types}
        /\ (result.stats.classes + result.stats.object_properties
              + result.stats.data_properties + result.stats.individuals
              = Cardinality(AllEntities))
             <=> \A e \in TypeSubjects :
                     Cardinality({kind \in Kinds : <<e, kind>> \in doc.graph.types}) <= 1

(* C16 witness: an entity that is an object and a datatype property, seen   *)
(* in the count of properties being smaller than the two counts together.   *)
C16_Witness ==
    /\ ReturnedFromGraph
    /\ \E i \in Reported("FR-002: Too few properties") :
           Violations[i].found < Violations[i].object + Violations[i].data
    /\ ClassifiedSets[2] \cap ClassifiedSets[3] # {}

(* A listing of at most 10 names of the offenders and the number left out.  *)
TruncatedListing(listing, offenders) ==
    LET n == Cardinality(offenders)
    IN  /\ Len(listing.names) <= ListingCap
        /\ n <= ListingCap => Len(listing.names) = n /\ listing.more = <<>>
        /\ n > ListingCap => Len(listing.names) = ListingCap /\ listing.more = <<n - ListingCap>>
        /\ \A j \in 1..Len(listing.names) :
               Times(listing.names[j], listing.names)
                 <= Cardinality({e \in offenders : _local_name(e) = listing.names[j]})

Orphans == {c \in Concepts : Neighbours(c) = {}}

(* C18: each of the four listing violations, and the orphan and the         *)
(* taxonomy-only listing of the report, names all n offenders and no        *)
(* remainder when n <= 10, and 10 of them followed by n - 10 when n > 10.   *)
C18_ListingsTruncatedAtTen ==
    ReturnedFromGraph =>
        /\ \A i \in Reported("FR-004: Properties missing rdfs:domain") :
               TruncatedListing(Violations[i].listing, {p \in Properties : NoDomain(p)})
        /\ \A i \in Reported("FR-004: Properties missing rdfs:range") :
               TruncatedListing(Violations[i].listing, {p \in Properties : NoRange(p)})
        /\ \A i \in Reported("FR-005: Entities missing rdfs:label") :
               TruncatedListing(Violations[i].listing,
                                {e \in AllEntities : e \notin doc.graph.label})
        /\ \A i \in Reported("FR-005: Entities missing rdfs:comment") :
               TruncatedListing(Violations[i].listing,
                                {e \in AllEntities : e \notin doc.graph.comment})
        /\ \A i \in WarningsOf(result.connectivity_report, "orphan class(es)") :
               TruncatedListing(result.connectivity_report[i].text.preview, Orphans)
        /\ \A i \in WarningsOf(result.connectivity_report, "taxonomy-only") :
               TruncatedListing(result.connectivity_report[i].text.preview, HierarchyOnly)

(* C18 witness: more than 10 classes without label and without any edge:    *)
(* the label listing and the orphan listing are both cut.                   *)
C18_Witness ==
    /\ ReturnedFromGraph
    /\ Cardinality(Orphans) > ListingCap
    /\ \E i \in Reported("FR-005: Entities missing rdfs:label") :
           Violations[i].listing.more = <<Cardinality(Concepts) - ListingCap>>
    /\ \E i \in WarningsOf(result.connectivity_report, "orphan class(es)") :
           /\ Len(result.connectivity_report[i].text.preview.names) = ListingCap
           /\ result.connectivity_report[i].text.preview.more # <<>>

(* C19: the analysis of every classified graph ends with the seven metrics  *)
(* and a report and raises nothing, whatever the shape of the graph; with   *)
(* no concept every count and ratio of the metrics is 0 and is_sparse is    *)
(* false.                                                                   *)
C19_AnalyzerTotal ==
    Parsed =>
        /\ pc # "raised"
        /\ pc = "returned" =>
               /\ DOMAIN result.connectivity = MetricNames
               /\ result.connectivity_report # <<>>
               /\ Concepts = {} =>
                      result.connectivity
                        = [orphan_classes |-> 0, property_coverage |-> 0,
                           property_to_class_ratio |-> 0, connected_components |-> 0,
                           avg_class_degree |-> 0, taxonomy_only_classes |-> 0,
                           is_sparse |-> FALSE]

(* C19 witness: properties with domains and ranges, and no concept.         *)
C19_Witness ==
    /\ ReturnedFromGraph
    /\ Concepts = {}
    /\ Relational # {}
    /\ doc.graph.dom # {}
    /\ ~result.connectivity.is_sparse

(* C20: every call of validate_ontology made by the orchestration loop      *)
(* passes the three thresholds the signature requires: once such a call has *)
(* ended, its arguments were bound and it returned a result.                *)
C20_OrchestrationCallsPassThresholds ==
    (caller \in OrchestrationCalls /\ pc # "start") =>
        /\ Binds
        /\ pc = "returned"

(* C17: the four classified sets and their counts are determined by the set *)
(* of type triples alone: whatever the order in which the document states   *)
(* them, however often it repeats one and in whatever order the store       *)
(* yields them, each set holds the subjects of the triples of its kind, and *)
(* classifying the same store again gives the same sets and counts.         *)
C17_ClassificationOfTripleSet ==
    pc = "classified" =>
        /\ result.classes = {t[1] : t \in {x \in Asserted(doc) : x[2] = _OWL_CLASS}}
        /\ result.obj_props
             = {t[1] : t \in {x \in Asserted(doc) : x[2] = _OWL_OBJECT_PROPERTY}}
        /\ result.data_props
             = {t[1] : t \in {x \in Asserted(doc) : x[2] = _OWL_DATATYPE_PROPERTY}}
        /\ result.individuals
             = {t[1] : t \in {x \in Asserted(doc) : x[2] = _OWL_NAMED_INDIVIDUAL}}
        /\ result.stats
             = [classes |-> Cardinality(result.classes),
                object_properties |-> Cardinality(result.obj_props),
                data_properties |-> Cardinality(result.data_props),
                individuals |-> Cardinality(result.individuals)]
        /\ Asserted(result.store) = Asserted(doc)

(* C17 witness: a document that repeats a type assertion and states two     *)
(* kinds for one entity, the individual first; the store yields the class   *)
(* triple first.                                                            *)
C17_Witness ==
    /\ pc = "classified"
    /\ doc = <<<<<<1, 1>>, _OWL_NAMED_INDIVIDUAL>>, <<<<1, 1>>, _OWL_CLASS>>,
               <<<<1, 1>>, _OWL_NAMED_INDIVIDUAL>>>>
    /\ result.store = <<<<<<1, 1>>, _OWL_CLASS>>, <<<<1, 1>>, _OWL_NAMED_INDIVIDUAL>>>>
    /\ result.stats.classes = 1
    /\ result.stats.individuals = 1

(* C21: the adjacency has the concepts, all of them and nothing else, as    *)
(* its nodes; b is a neighbour of a exactly when a subclass triple joins    *)
(* the two concepts in either direction or a relational property has one in *)
(* its domain and the other in its range, so the relation is symmetric and  *)
(* two domains of a property are not linked by it.                          *)
C21_AdjacencyIsSymmetricClosure ==
    ReturnedFromGraph =>
        \E adjacency \in {Adjacency(doc.graph, Classes(doc.graph), ObjProps(doc.graph))} :
            /\ DOMAIN adjacency = Concepts
            /\ \A a \in Concepts :
                   /\ adjacency[a] = {b \in Concepts : Linked(a, b)}
                   /\ \A b \in adjacency[a] : b \in Concepts /\ a \in adjacency[b]

(* C21 witness: a relational property with two concepts in its domain that  *)
(* nothing else links, and a concept in its range.                          *)
C21_Witness ==
    /\ ReturnedFromGraph
    /\ \E p \in Relational : \E a, b, c \in Concepts :
           /\ a # b
           /\ <<p, a>> \in doc.graph.dom /\ <<p, b>> \in doc.graph.dom
           /\ <<p, c>> \in doc.graph.rng
           /\ ~Linked(a, b)
           /\ Linked(a, c) /\ Linked(b, c)
    /\ result.connectivity.avg_class_degree > 0

(* C22: the search ends on every graph, and the components it records are   *)
(* non-empty sets of concepts, every concept is in exactly one of them, a    *)
(* component is the set of the concepts that a path of adjacency edges       *)
(* joins to any of its members, and connected_components is their number.    *)
C22_ComponentsPartitionConcepts ==
    ReturnedFromGraph =>
        \E components \in {Components(Adjacency(doc.graph, Classes(doc.graph),
                                                ObjProps(doc.graph)),
                                      Iterate(Classes(doc.graph), hashSeed), hashSeed)} :
            /\ \A i \in DOMAIN components :
                   /\ components[i] # {}
                   /\ \A c \in components[i] : components[i] = Reach({c})
            /\ \A c \in Concepts :
                   Cardinality({i \in DOMAIN components : c \in components[i]}) = 1
            /\ result.connectivity.connected_components = Len(components)

(* C22 witness: two concepts in a subclass cycle, a third that is its own    *)
(* subclass, two components.                                                *)
C22_Witness ==
    /\ ReturnedFromGraph
    /\ \E a, b, c \in Concepts :
           /\ a # b /\ a # c /\ b # c
           /\ <<a, b>> \in doc.graph.sub /\ <<b, a>> \in doc.graph.sub
           /\ <<c, c>> \in doc.graph.sub
           /\ ~Linked(a, c) /\ ~Linked(b, c)
    /\ result.connectivity.connected_components = 2

(* C23: a concept counted as an orphan has no subclass triple with another  *)
(* concept and is in no relational property's domain or range: no orphan is *)
(* in the coverage set.                                                     *)
C23_OrphansAreNotCovered ==
    ReturnedFromGraph =>
        \E orphan_classes \in {OrphanClasses(Adjacency(doc.graph, Classes(doc.graph),
                                                        ObjProps(doc.graph)),
                                              Iterate(Classes(doc.graph), hashSeed))} :
            /\ result.connectivity.orphan_classes = Len(orphan_classes)
            /\ \A i \in DOMAIN orphan_classes :
                   /\ \A d \in Concepts \ {orphan_classes[i]} :
                          /\ <<orphan_classes[i], d>> \notin doc.graph.sub
                          /\ <<d, orphan_classes[i]>> \notin doc.graph.sub
                   /\ orphan_classes[i] \notin Covered

(* C24: the concepts counted taxonomy-only are those with an adjacency edge *)
(* that are not in the coverage set, each once; each has a subclass triple  *)
(* with a concept and is in no relational domain or range, none is an       *)
(* orphan, and every concept is covered, an orphan or taxonomy-only.        *)
C24_TaxonomyOnlyIsLinkedAndUncovered ==
    ReturnedFromGraph =>
        \E nodes \in {Iterate(Classes(doc.graph), hashSeed)} :
        \E adjacency \in {Adjacency(doc.graph, Classes(doc.graph), ObjProps(doc.graph))} :
        \E orphan_classes \in {OrphanClasses(adjacency, nodes)} :
        \E taxonomy_only \in
              {TaxonomyOnly(nodes,
                            ClassesInProperties(doc.graph, Classes(doc.graph),
                                                ObjProps(doc.graph)),
                            orphan_classes)} :
            /\ Asserted(taxonomy_only) = {c \in Concepts : Neighbours(c) # {} /\ c \notin Covered}
            /\ Len(taxonomy_only) = Cardinality(Asserted(taxonomy_only))
            /\ result.connectivity.taxonomy_only_classes = Len(taxonomy_only)
            /\ \A c \in Asserted(taxonomy_only) :
                   /\ \E d \in Concepts :
                          <<c, d>> \in doc.graph.sub \/ <<d, c>> \in doc.graph.sub
                   /\ \A q \in Relational :
                          <<q, c>> \notin doc.graph.dom /\ <<q, c>> \notin doc.graph.rng
                   /\ c \notin Asserted(orphan_classes)
            /\ \A c \in Concepts :
                   \/ c \in Covered
                   \/ c \in Asserted(orphan_classes)
                   \/ c \in Asserted(taxonomy_only)

(* C24 witness: a graph with a covered concept, an orphan and a concept     *)
(* that only a subclass triple links.                                       *)
C24_Witness ==
    /\ ReturnedFromGraph
    /\ Covered # {}
    /\ result.connectivity.orphan_classes >= 1
    /\ result.connectivity.taxonomy_only_classes >= 1
    /\ HierarchyOnly # {}

(* The three comparisons of the sparsity verdict on the values the analyzer *)
(* compares: coverage and ratio are 0.0 when there is no concept.           *)
CoverageIsLow ==
    100 * Cardinality(Covered) < _MIN_PROPERTY_COVERAGE * Cardinality(Concepts)
    \/ Concepts = {}

RatioIsLow ==
    100 * Cardinality(Relational) < _MIN_PROP_CLASS_RATIO * Cardinality(Concepts)
    \/ Concepts = {}

TaxonomyIsHigh ==
    /\ Concepts # {}
    /\ 100 * Cardinality(HierarchyOnly) > _MAX_TAXONOMY_ONLY_RATIO * Cardinality(Concepts)

(* C25: the report lists the coverage, the ratio and the taxonomy-only      *)
(* warning exactly when the comparison of the verdict holds, so a report    *)
(* for a graph that is not sparse, one with no concept included, lists none *)
(* of the three.                                                            *)
C25_ReportAgreesWithVerdict ==
    ReturnedFromGraph =>
        /\ WarningsOf(result.connectivity_report, "Property coverage is LOW") # {}
             <=> CoverageIsLow
        /\ WarningsOf(result.connectivity_report, "Property-to-class ratio") # {}
             <=> RatioIsLow
        /\ WarningsOf(result.connectivity_report, "taxonomy-only") # {}
             <=> TaxonomyIsHigh
        /\ ~result.connectivity.is_sparse =>
               /\ WarningsOf(result.connectivity_report, "Property coverage is LOW") = {}
               /\ WarningsOf(result.connectivity_report, "Property-to-class ratio") = {}
               /\ WarningsOf(result.connectivity_report, "taxonomy-only") = {}

(***************************************************************************)
(* Properties of generate_ontology.                                         *)
(***************************************************************************)
Ended == pc \in {"returned", "raised"}

ListedErrors ==
    {"OWL conversion failed", "Agent failed to generate ontology file.",
     "Validation failed after N attempts."}

Invocations(kind) ==
    {i \in 1..Len(run.invocations) : run.invocations[i].kind = kind}

(* C26: with MAX_VALIDATION_ATTEMPTS >= 1, whatever the agent's invocations  *)
(* returned, a run of generate_ontology ends by returning success, or the   *)
(* OWL conversion failure, or the generation failure, or "Validation        *)
(* failed after N attempts" -- never by the fall-through return and never   *)
(* in another way.                                                          *)
C26_RunEndsByListedReturn ==
    (/\ Ended
     /\ run.config.MAX_VALIDATION_ATTEMPTS >= 1
     /\ result # [exception |-> "StreamIdleTimeout"])
    => /\ pc = "returned"
       /\ result.success \/ result.error \in ListedErrors

(* C28: a validation attempt that did not succeed while attempts remain is  *)
(* followed by a fix invocation of the generator agent; the run does not    *)
(* end on it and does not validate again without one.                       *)
C28_FailedValidationIsFollowedByFix ==
    (/\ Ended
     /\ caller = "validation attempt"
     /\ run.attempt < run.config.MAX_VALIDATION_ATTEMPTS)
    => /\ run.invocations # <<>>
       /\ run.invocations[Len(run.invocations)].kind = "fix"

C30_LaterInvocationsResumeFirstSession ==
    \A i \in 2..Len(run.invocations) :
        /\ "resume" \in DOMAIN run.invocations[i].options
        /\ run.invocations[i].options.resume = run.invocations[1].session_id
====
